---- MODULE Spec2Model ----
(***************************************************************************)
(* Model of whisper_gui.py: the generator transcribe() together with its   *)
(* helpers format_time, save_recorded_audio and split_audio.               *)
(*                                                                         *)
(* Strings are sequences of one-character strings, so that formatting,     *)
(* joining, stripping and lexicographic sorting are computed character by  *)
(* character.  Python's None is the record Absent; a present value v is    *)
(* Some(v).                                                                *)
(*                                                                         *)
(* Environment assumptions: whisper.load_model and os.makedirs succeed;    *)
(* the failures modelled are the ones the code can meet afterwards         *)
(* (normalisation, the ffmpeg call, the engine call, the file write).      *)
(* time.time() is the wall clock: it may step backwards between two reads. *)
(* Times are rationals num/den; int() truncates towards zero.              *)
(***************************************************************************)
EXTENDS Integers, Sequences, FiniteSets, TLC

VARIABLES
    pc,               \* position of the generator transcribe()
    audio_input,      \* argument audio_input
    chunk_duration,   \* argument chunk_duration
    audio_file,       \* local audio_file (Absent until normalised)
    file_name,        \* local file_name
    transcript_lines, \* local transcript_lines
    chunks,           \* local chunks
    i,                \* loop index of "for i, chunk in enumerate(chunks)"
    start_time,       \* local start_time
    elapsed,          \* local elapsed (last computed)
    eta,              \* local eta (last computed), a rational [num, den]
    clock,            \* the wall clock read by time.time()
    events,           \* tuples yielded to the consumer so far, in order
    fs,               \* files under transcriptions/: path -> Absent | Some(text)
    engineCalls,      \* calls of model.transcribe so far: [chunk, result]
    splitterCalls,    \* calls of split_audio so far: [path, segment_time, result]
    fileWrites,       \* number of times the transcript file was opened for writing
    fmt,              \* harness of format_time: [pc, num, den, out]
    split,            \* harness of split_audio: [pc, duration, chunk_duration, written, result]
    run,              \* number of the current call of transcribe, from 1
    lastRun           \* per output path, the last call that opened the file:
                      \* [status, text, run], status "completed" with the text of
                      \* its success tuple, or "torn" when its write raised

vars == <<pc, audio_input, chunk_duration, audio_file, file_name,
          transcript_lines, chunks, i, start_time, elapsed, eta, clock,
          events, fs, engineCalls, splitterCalls, fileWrites, fmt, split, run, lastRun>>

runVars == <<pc, audio_input, chunk_duration, audio_file, file_name,
             transcript_lines, chunks, i, start_time, elapsed, eta, clock,
             events, fs, engineCalls, splitterCalls, fileWrites, run, lastRun>>

(***************************************************************************)
(* Bounds                                                                  *)
(***************************************************************************)
MaxChunks == 2      \* most chunk files ffmpeg writes in a run of transcribe
MaxSegs == 1        \* longest engine result enumerated exhaustively
MaxRuns == 2        \* most calls of transcribe made one after the other

(***************************************************************************)
(* Values and strings                                                      *)
(***************************************************************************)
Absent == [some |-> FALSE]
Some(v) == [some |-> TRUE, val |-> v]

DigitChars == <<"0", "1", "2", "3", "4", "5", "6", "7", "8", "9">>

\* "%d" % n for n >= 0
RECURSIVE NatToStr(_)
NatToStr(n) ==
    IF n < 10 THEN <<DigitChars[n + 1]>>
    ELSE NatToStr(n \div 10) \o <<DigitChars[(n % 10) + 1]>>

\* "%d" % n
IntToStr(n) == IF n < 0 THEN <<"-">> \o NatToStr(-n) ELSE NatToStr(n)

\* "%0<w>d" % n for n >= 0: at least w digits, padded with zeros
ZeroPad(n, w) ==
    LET s == NatToStr(n)
    IN  IF Len(s) >= w THEN s ELSE [k \in 1..(w - Len(s)) |-> "0"] \o s

\* sep.join(lines)
RECURSIVE JoinWith(_, _)
JoinWith(sep, lines) ==
    IF lines = <<>> THEN <<>>
    ELSE IF Len(lines) = 1 THEN lines[1]
    ELSE lines[1] \o sep \o JoinWith(sep, Tail(lines))

\* "\n".join(lines)
Join(lines) == JoinWith(<<"\n">>, lines)

Whitespace == {" ", "\t", "\n", "\r"}

\* s.strip()
RECURSIVE LStrip(_)
LStrip(s) == IF s # <<>> /\ s[1] \in Whitespace THEN LStrip(Tail(s)) ELSE s
RECURSIVE RStrip(_)
RStrip(s) ==
    IF s # <<>> /\ s[Len(s)] \in Whitespace THEN RStrip(SubSeq(s, 1, Len(s) - 1)) ELSE s
Strip(s) == RStrip(LStrip(s))

\* the first n lines instead of the last n
LastNHead(lines, n) == IF Len(lines) <= n THEN lines ELSE SubSeq(lines, 1, n)

\* lines[-n:]
LastN(lines, n) ==
    IF Len(lines) <= n THEN lines ELSE SubSeq(lines, Len(lines) - n + 1, Len(lines))

(***************************************************************************)
(* format_time                                                             *)
(***************************************************************************)
\* int(num/den): truncation towards zero
IntTrunc(num, den) == IF num >= 0 THEN num \div den ELSE -((-num) \div den)

\* str(timedelta(seconds=sec)): the days are split off, the rest is H:MM:SS
TimedeltaStr(sec) ==
    LET days == sec \div 86400
        rest == sec % 86400
        mm == (rest \div 60) % 60
        hh == rest \div 3600
        ss == rest % 60
        hms == NatToStr(hh) \o <<":">> \o ZeroPad(mm, 2) \o <<":">> \o ZeroPad(ss, 2)
        absdays == IF days < 0 THEN -days ELSE days
        plural == IF absdays # 1 THEN <<"s">> ELSE <<>>
    IN  IF days # 0
        THEN IntToStr(days) \o <<" ", "d", "a", "y">> \o plural \o <<",", " ">> \o hms
        ELSE hms

FormatTime(num, den) == TimedeltaStr(IntTrunc(num, den))

(***************************************************************************)
(* split_audio                                                             *)
(***************************************************************************)
PadWidth == 3       \* the width of %03d in chunk_pattern

\* code points of the characters of a chunk file name
CharCode(c) ==
    CASE c = "." -> 46
      [] c = "_" -> 95
      [] c = "a" -> 97
      [] c = "c" -> 99
      [] c = "h" -> 104
      [] c = "k" -> 107
      [] c = "n" -> 110
      [] c = "u" -> 117
      [] c = "v" -> 118
      [] c = "w" -> 119
      [] OTHER -> 48 + (CHOOSE d \in 0..9 : DigitChars[d + 1] = c)

\* a < b for Python strings: the first differing code point decides, a proper
\* prefix is smaller
RECURSIVE StrLessFrom(_, _, _)
StrLessFrom(a, b, k) ==
    IF k > Len(a) THEN k <= Len(b)
    ELSE IF k > Len(b) THEN FALSE
    ELSE IF a[k] = b[k] THEN StrLessFrom(a, b, k + 1)
    ELSE CharCode(a[k]) < CharCode(b[k])
StrLess(a, b) == StrLessFrom(a, b, 1)

\* f.endswith(suffix)
EndsWith(f, suffix) ==
    Len(f) >= Len(suffix) /\ SubSeq(f, Len(f) - Len(suffix) + 1, Len(f)) = suffix

WavSuffix == <<".", "w", "a", "v">>

\* the name ffmpeg gives its k-th segment (k = 0, 1, ...) under chunk_pattern;
\* the directory tmp_dir is the same prefix of every name and is left out
ChunkName(k) == <<"c", "h", "u", "n", "k", "_">> \o ZeroPad(k, PadWidth) \o WavSuffix

\* os.listdir(tmp_dir) after ffmpeg wrote n segments, in some order
ListDir(n) == [k \in 1..n |-> ChunkName(n - k)]

\* sorted([... for f in os.listdir(tmp_dir) if f.endswith(".wav")])
SplitAudio(n) ==
    SortSeq(SelectSeq(ListDir(n), LAMBDA f : EndsWith(f, WavSuffix)), StrLess)

\* number of segments ffmpeg cuts from a source of the given duration
SegmentCount(duration, segment_time) == (duration + segment_time - 1) \div segment_time

(***************************************************************************)
(* Inputs of transcribe and outcomes of its collaborators                  *)
(***************************************************************************)
PreviewLines == 10  \* transcript_lines[-10:]

\* samples of a recording: None, an empty array, a non-empty array
SampleValues == {Absent, Some(<<>>), Some(<<3, -3>>)}

\* uploaded files; both have the stem "t"
FilePaths == {<<"a", "/", "t", ".", "m">>, <<"t", ".", "w">>}

\* audio_input: a tuple (sample_rate, samples), a path, or None
AudioInputs ==
    [kind : {"recorded"}, sr : {16000}, samples : SampleValues]
        \cup [kind : {"file"}, path : FilePaths]
        \cup {[kind |-> "none"]}

\* values of the chunk-duration slider that matter: 0 and a positive one
ChunkDurations == {0, 120}

\* segments the engine may return; start and end in tenths of a second
SegmentPool ==
    {[start |-> 0, end |-> 615, text |-> <<" ", "h", "i">>],
     [start |-> 615, end |-> 36619, text |-> <<"y", "o", " ">>]}

RECURSIVE SeqsUpTo(_, _)
SeqsUpTo(S, n) ==
    IF n = 0 THEN {<<>>}
    ELSE LET shorter == SeqsUpTo(S, n - 1)
         IN  shorter \cup {Append(q, x) : q \in {r \in shorter : Len(r) = n - 1}, x \in S}

\* a result longer than the preview window
LongResult ==
    [k \in 1..(PreviewLines + 1) |->
        [start |-> 10 * k, end |-> 10 * k + 5, text |-> <<DigitChars[(k % 10) + 1]>>]]

\* result.get("segments", []) for one engine call
EngineResults == SeqsUpTo(SegmentPool, MaxSegs) \cup {LongResult}

\* how far the wall clock moves between two reads (it may be set back); the
\* first read, the one of start_time, is taken as the origin
ClockSteps == {-5, 7}

\* the path save_recorded_audio returns (inside a fresh temporary directory)
RecordedWav == <<"r", "e", "c", "o", "r", "d", "e", "d", ".", "w", "a", "v">>

RecordedName == <<"r", "e", "c", "o", "r", "d", "e", "d", "_", "a", "u", "d", "i", "o">>

\* index of the last occurrence of c in s, 0 when there is none
LastIndexOf(s, c) ==
    LET hits == {k \in 1..Len(s) : s[k] = c}
    IN  IF hits = {} THEN 0 ELSE CHOOSE k \in hits : \A h \in hits : h <= k

\* Path(p).stem: the last path component without its last suffix
Stem(p) ==
    LET slash == LastIndexOf(p, "/")
        name == SubSeq(p, slash + 1, Len(p))
        dot == LastIndexOf(name, ".")
    IN  IF 1 < dot /\ dot < Len(name) THEN SubSeq(name, 1, dot - 1) ELSE name

\* f"transcriptions/{file_name}.txt"
OutputTxtPath(name) ==
    <<"t", "r", "a", "n", "s", "c", "r", "i", "p", "t", "i", "o", "n", "s", "/">>
        \o name \o <<".", "t", "x", "t">>

OutputPaths == {OutputTxtPath(RecordedName)} \cup {OutputTxtPath(Stem(p)) : p \in FilePaths}

\* f"[{start} - {end}]: {text}" with start, end through format_time
FormatLine(seg) ==
    <<"[">> \o FormatTime(seg.start, 10) \o <<" ", "-", " ">> \o FormatTime(seg.end, 10)
        \o <<"]", ":", " ">> \o Strip(seg.text)

\* the lines of one engine result in reverse order
ChunkLinesReversed(segs) == [k \in 1..Len(segs) |-> FormatLine(segs[Len(segs) + 1 - k])]

\* the lines appended for one engine result, in the order of its segments
ChunkLines(segs) == [k \in 1..Len(segs) |-> FormatLine(segs[k])]

\* the tuples transcribe yields
ErrorEvent(msg) ==
    [status |-> [kind |-> "error", text |-> msg], preview |-> <<>>, artifact |-> Absent]

ProgressEvent(idx, total, el, et, lines) ==
    [status |-> [kind |-> "progress", chunk |-> idx + 1, total |-> total,
                 elapsed |-> FormatTime(el, 1), eta |-> FormatTime(et.num, et.den)],
     preview |-> Join(LastN(lines, PreviewLines)),
     artifact |-> Absent]

DoneEvent(total_time, lines, path) ==
    [status |-> [kind |-> "done", time |-> FormatTime(total_time, 1)],
     preview |-> Join(lines),
     artifact |-> Some(path)]

\* avg_time = elapsed / (i + 1); eta = avg_time * (total_chunks - i - 1)
Eta(el, idx, total) == [num |-> el * (total - idx - 1), den |-> idx + 1]

IsTerminal(e) == e.status.kind \in {"done", "error"}

(***************************************************************************)
(* transcribe: one action per stretch of code between two suspensions or   *)
(* two calls of a collaborator                                             *)
(***************************************************************************)
\* a transcript left in transcriptions/ by an earlier run
OldText == <<"o", "l", "d">>

\* no call of transcribe has opened a transcript file yet
NoRuns == [p \in OutputPaths |-> [status |-> "none", text |-> <<>>, run |-> 0]]

Init ==
    /\ pc = "Idle"
    /\ audio_input \in AudioInputs
    /\ chunk_duration \in ChunkDurations
    /\ audio_file = Absent
    /\ file_name = Absent
    /\ transcript_lines = <<>>
    /\ chunks = <<>>
    /\ i = 0
    /\ start_time = 0
    /\ elapsed = 0
    /\ eta = [num |-> 0, den |-> 1]
    /\ clock = 0
    /\ events = <<>>
    /\ fs \in {[p \in OutputPaths |-> old] : old \in {Absent, Some(OldText)}}
    /\ engineCalls = <<>>
    /\ splitterCalls = <<>>
    /\ fileWrites = 0
    /\ fmt = [pc |-> "off"]
    /\ split = [pc |-> "off"]
    /\ run = 1
    /\ lastRun = NoRuns

\* the consumer asks for the first value: the body starts running
ConsumerStart ==
    /\ pc = "Idle"
    /\ pc' = "Normalizing"
    /\ UNCHANGED <<audio_input, chunk_duration, audio_file, file_name,
                   transcript_lines, chunks, i, start_time, elapsed, eta, clock,
                   events, fs, engineCalls, splitterCalls, fileWrites, fmt, split, run, lastRun>>

\* an except branch that is also taken for an uploaded file
NormalizeFailAnyInput ==
    /\ pc = "Normalizing"
    /\ \/ /\ audio_input.kind = "recorded"
          /\ events' = Append(events, ErrorEvent("No audio data received from microphone."))
       \/ /\ audio_input.kind = "file"
          /\ events' = Append(events, ErrorEvent("file rejected"))
       \/ /\ audio_input.kind = "none"
          /\ events' = Append(events, ErrorEvent("Path(None) is a TypeError"))
    /\ pc' = "SuspendedError"
    /\ UNCHANGED <<audio_input, chunk_duration, audio_file, file_name,
                   transcript_lines, chunks, i, start_time, elapsed, eta, clock,
                   fs, engineCalls, splitterCalls, fileWrites, fmt, split, run, lastRun>>

\* lines 41-51, the input cannot be resolved: the except branch yields
NormalizeFail ==
    /\ pc = "Normalizing"
    /\ \/ /\ audio_input.kind = "recorded"
          /\ \/ ~audio_input.samples.some
             \/ audio_input.samples.some /\ Len(audio_input.samples.val) = 0
          /\ events' = Append(events, ErrorEvent("No audio data received from microphone."))
       \/ /\ audio_input.kind = "recorded"
          /\ audio_input.samples.some /\ Len(audio_input.samples.val) # 0
          /\ events' = Append(events, ErrorEvent("wav_write failed"))
       \/ /\ audio_input.kind = "none"
          /\ events' = Append(events, ErrorEvent("Path(None) is a TypeError"))
    /\ pc' = "SuspendedError"
    /\ UNCHANGED <<audio_input, chunk_duration, audio_file, file_name,
                   transcript_lines, chunks, i, start_time, elapsed, eta, clock,
                   fs, engineCalls, splitterCalls, fileWrites, fmt, split, run, lastRun>>

\* normalisation that checks a recording for None only, not for emptiness
NormalizeOkUnchecked ==
    /\ pc = "Normalizing"
    /\ \/ /\ audio_input.kind = "recorded"
          /\ audio_input.samples.some
          /\ audio_file' = Some(RecordedWav)
          /\ file_name' = Some(RecordedName)
       \/ /\ audio_input.kind = "file"
          /\ audio_file' = Some(audio_input.path)
          /\ file_name' = Some(Stem(audio_input.path))
    /\ pc' = "Segmenting"
    /\ UNCHANGED <<audio_input, chunk_duration, transcript_lines, chunks, i,
                   start_time, elapsed, eta, clock, events, fs, engineCalls,
                   splitterCalls, fileWrites, fmt, split, run, lastRun>>

\* lines 41-48, the input is resolved
NormalizeOk ==
    /\ pc = "Normalizing"
    /\ \/ /\ audio_input.kind = "recorded"
          /\ audio_input.samples.some /\ Len(audio_input.samples.val) # 0
          /\ audio_file' = Some(RecordedWav)
          /\ file_name' = Some(RecordedName)
       \/ /\ audio_input.kind = "file"
          /\ audio_file' = Some(audio_input.path)
          /\ file_name' = Some(Stem(audio_input.path))
    /\ pc' = "Segmenting"
    /\ UNCHANGED <<audio_input, chunk_duration, transcript_lines, chunks, i,
                   start_time, elapsed, eta, clock, events, fs, engineCalls,
                   splitterCalls, fileWrites, fmt, split, run, lastRun>>

\* a loop that stops one chunk early
LoopPcSkipLast(idx, n) == IF idx < n - 1 THEN "Processing" ELSE "Persisting"

\* where the for loop goes with index idx over a list of n chunks
LoopPc(idx, n) == IF idx < n THEN "Processing" ELSE "Persisting"

\* lines 53-61 with chunk_duration <= 0: the input itself is the only chunk
SegmentPassThrough ==
    /\ pc = "Segmenting"
    /\ ~(chunk_duration > 0)
    /\ chunks' = <<audio_file.val>>
    /\ transcript_lines' = <<>>
    /\ i' = 0
    /\ start_time' = clock
    /\ pc' = LoopPc(0, 1)
    /\ UNCHANGED <<audio_input, chunk_duration, audio_file, file_name, elapsed, eta,
                   clock, events, fs, engineCalls, splitterCalls, fileWrites, fmt, split, run, lastRun>>

\* splitting also when chunk_duration is 0 (">=" for ">")
SegmentSplitAtZero ==
    /\ pc = "Segmenting"
    /\ chunk_duration >= 0
    /\ \E n \in 0..MaxChunks : chunks' = SplitAudio(n)
    /\ splitterCalls' = Append(splitterCalls,
            [path |-> audio_file.val, segment_time |-> chunk_duration,
             result |-> Some(chunks')])
    /\ transcript_lines' = <<>>
    /\ i' = 0
    /\ start_time' = clock
    /\ pc' = LoopPc(0, Len(chunks'))
    /\ UNCHANGED <<audio_input, chunk_duration, audio_file, file_name, elapsed, eta,
                   clock, events, fs, engineCalls, fileWrites, fmt, split, run, lastRun>>

\* lines 53-61 with chunk_duration > 0: ffmpeg runs and leaves n files,
\* none when it fails on the input
SegmentSplit ==
    /\ pc = "Segmenting"
    /\ chunk_duration > 0
    /\ \E n \in 0..MaxChunks : chunks' = SplitAudio(n)
    /\ splitterCalls' = Append(splitterCalls,
            [path |-> audio_file.val, segment_time |-> chunk_duration,
             result |-> Some(chunks')])
    /\ transcript_lines' = <<>>
    /\ i' = 0
    /\ start_time' = clock
    /\ pc' = LoopPc(0, Len(chunks'))
    /\ UNCHANGED <<audio_input, chunk_duration, audio_file, file_name, elapsed, eta,
                   clock, events, fs, engineCalls, fileWrites, fmt, split, run, lastRun>>

\* line 58, subprocess.run raises (no ffmpeg executable): the run aborts
SegmentRaise ==
    /\ pc = "Segmenting"
    /\ chunk_duration > 0
    /\ splitterCalls' = Append(splitterCalls,
            [path |-> audio_file.val, segment_time |-> chunk_duration,
             result |-> Absent])
    /\ transcript_lines' = <<>>
    /\ pc' = "Raised"
    /\ UNCHANGED <<audio_input, chunk_duration, audio_file, file_name, chunks, i,
                   start_time, elapsed, eta, clock, events, fs, engineCalls,
                   fileWrites, fmt, split, run, lastRun>>

\* an engine call that is always given the first chunk
EngineReturnFirstChunk ==
    /\ pc = "Processing"
    /\ \E segs \in EngineResults :
          /\ engineCalls' = Append(engineCalls, [chunk |-> chunks[1], result |-> Some(segs)])
          /\ transcript_lines' = transcript_lines \o ChunkLines(segs)
    /\ pc' = "Reporting"
    /\ UNCHANGED <<audio_input, chunk_duration, audio_file, file_name, chunks, i,
                   start_time, elapsed, eta, clock, events, fs, splitterCalls,
                   fileWrites, fmt, split, run, lastRun>>

\* a loop body that replaces the transcript by the lines of the chunk
EngineReturnReplace ==
    /\ pc = "Processing"
    /\ \E segs \in EngineResults :
          /\ engineCalls' = Append(engineCalls, [chunk |-> chunks[i + 1], result |-> Some(segs)])
          /\ transcript_lines' = ChunkLines(segs)
    /\ pc' = "Reporting"
    /\ UNCHANGED <<audio_input, chunk_duration, audio_file, file_name, chunks, i,
                   start_time, elapsed, eta, clock, events, fs, splitterCalls,
                   fileWrites, fmt, split, run, lastRun>>

\* a loop body that shifts the timestamps by the position of the chunk
EngineReturnWithOffset ==
    /\ pc = "Processing"
    /\ \E segs \in EngineResults :
          /\ engineCalls' = Append(engineCalls, [chunk |-> chunks[i + 1], result |-> Some(segs)])
          /\ transcript_lines' = transcript_lines \o
                ChunkLines([k \in 1..Len(segs) |->
                    [segs[k] EXCEPT !.start = @ + 10 * i * chunk_duration,
                                    !.end = @ + 10 * i * chunk_duration]])
    /\ pc' = "Reporting"
    /\ UNCHANGED <<audio_input, chunk_duration, audio_file, file_name, chunks, i,
                   start_time, elapsed, eta, clock, events, fs, splitterCalls,
                   fileWrites, fmt, split, run, lastRun>>

\* lines 64-70: the engine returns and its segments are appended
EngineReturn ==
    /\ pc = "Processing"
    /\ \E segs \in EngineResults :
          /\ engineCalls' = Append(engineCalls, [chunk |-> chunks[i + 1], result |-> Some(segs)])
          /\ transcript_lines' = transcript_lines \o ChunkLines(segs)
    /\ pc' = "Reporting"
    /\ UNCHANGED <<audio_input, chunk_duration, audio_file, file_name, chunks, i,
                   start_time, elapsed, eta, clock, events, fs, splitterCalls,
                   fileWrites, fmt, split, run, lastRun>>

\* an engine failure after which the partial transcript is saved
EngineRaisePersistsPartial ==
    /\ pc = "Processing"
    /\ engineCalls' = Append(engineCalls, [chunk |-> chunks[i + 1], result |-> Absent])
    /\ pc' = "Persisting"
    /\ UNCHANGED <<audio_input, chunk_duration, audio_file, file_name,
                   transcript_lines, chunks, i, start_time, elapsed, eta, clock,
                   events, fs, splitterCalls, fileWrites, fmt, split, run, lastRun>>

\* line 64, the engine raises: the run aborts
EngineRaise ==
    /\ pc = "Processing"
    /\ engineCalls' = Append(engineCalls, [chunk |-> chunks[i + 1], result |-> Absent])
    /\ pc' = "Raised"
    /\ UNCHANGED <<audio_input, chunk_duration, audio_file, file_name,
                   transcript_lines, chunks, i, start_time, elapsed, eta, clock,
                   events, fs, splitterCalls, fileWrites, fmt, split, run, lastRun>>

\* a loop that already passes the next chunk to the engine before it suspends
YieldProgressPrefetch ==
    /\ pc = "Reporting"
    /\ \E d \in ClockSteps : clock' = clock + d
    /\ elapsed' = clock' - start_time
    /\ eta' = Eta(elapsed', i, Len(chunks))
    /\ events' = Append(events,
                    ProgressEvent(i, Len(chunks), elapsed', eta', transcript_lines))
    /\ engineCalls' = IF i + 1 < Len(chunks)
                        THEN Append(engineCalls, [chunk |-> chunks[i + 2], result |-> Some(<<>>)])
                        ELSE engineCalls
    /\ pc' = "SuspendedProgress"
    /\ UNCHANGED <<audio_input, chunk_duration, audio_file, file_name,
                   transcript_lines, chunks, i, start_time, fs,
                   splitterCalls, fileWrites, fmt, split, run, lastRun>>

\* lines 72-78: the progress tuple of chunk i is yielded
YieldProgress ==
    /\ pc = "Reporting"
    /\ \E d \in ClockSteps : clock' = clock + d
    /\ elapsed' = clock' - start_time
    /\ eta' = Eta(elapsed', i, Len(chunks))
    /\ events' = Append(events,
                    ProgressEvent(i, Len(chunks), elapsed', eta', transcript_lines))
    /\ pc' = "SuspendedProgress"
    /\ UNCHANGED <<audio_input, chunk_duration, audio_file, file_name,
                   transcript_lines, chunks, i, start_time, fs, engineCalls,
                   splitterCalls, fileWrites, fmt, split, run, lastRun>>

\* the consumer asks for the next value after a progress tuple: next iteration
ConsumerNext ==
    /\ pc = "SuspendedProgress"
    /\ i' = i + 1
    /\ pc' = LoopPc(i + 1, Len(chunks))
    /\ UNCHANGED <<audio_input, chunk_duration, audio_file, file_name,
                   transcript_lines, chunks, start_time, elapsed, eta, clock,
                   events, fs, engineCalls, splitterCalls, fileWrites, fmt, split, run, lastRun>>

\* a write that ends the file with a newline
FileTextTrailingNewline(lines) == Join(lines) \o <<"\n">>

\* a write of the preview window only
FileTextPreviewOnly(lines) == Join(LastN(lines, PreviewLines))

\* the text f.write(...) puts into the file
FileText(lines) == Join(lines)

\* a file opened in append mode
PersistOkAppend ==
    /\ pc = "Persisting"
    /\ fs' = [fs EXCEPT ![OutputTxtPath(file_name.val)] =
                  IF @.some THEN Some(@.val \o FileText(transcript_lines))
                  ELSE Some(FileText(transcript_lines))]
    /\ fileWrites' = fileWrites + 1
    /\ pc' = "Completing"
    /\ UNCHANGED <<audio_input, chunk_duration, audio_file, file_name,
                   transcript_lines, chunks, i, start_time, elapsed, eta, clock,
                   events, engineCalls, splitterCalls, fmt, split, run, lastRun>>

\* lines 81-82: the file is opened for writing and written
PersistOk ==
    /\ pc = "Persisting"
    /\ fs' = [fs EXCEPT ![OutputTxtPath(file_name.val)] = Some(FileText(transcript_lines))]
    /\ fileWrites' = fileWrites + 1
    /\ pc' = "Completing"
    /\ UNCHANGED <<audio_input, chunk_duration, audio_file, file_name,
                   transcript_lines, chunks, i, start_time, elapsed, eta, clock,
                   events, engineCalls, splitterCalls, fmt, split, run, lastRun>>

\* lines 81-82, open raises (the file is untouched) or write raises after
\* open truncated the file: the run aborts
PersistRaise ==
    /\ pc = "Persisting"
    /\ \/ fs' = fs /\ fileWrites' = fileWrites /\ lastRun' = lastRun
       \/ /\ fs' = [fs EXCEPT ![OutputTxtPath(file_name.val)] = Some(<<>>)]
          /\ fileWrites' = fileWrites + 1
          /\ lastRun' = [lastRun EXCEPT ![OutputTxtPath(file_name.val)] =
                            [status |-> "torn", text |-> <<>>, run |-> run]]
    /\ pc' = "Raised"
    /\ UNCHANGED <<audio_input, chunk_duration, audio_file, file_name,
                   transcript_lines, chunks, i, start_time, elapsed, eta, clock,
                   events, engineCalls, splitterCalls, fmt, split, run>>

\* lines 84-86: the terminal tuple is yielded
YieldDone ==
    /\ pc = "Completing"
    /\ \E d \in ClockSteps : clock' = clock + d
    /\ events' = Append(events,
                    DoneEvent(clock' - start_time, transcript_lines,
                              OutputTxtPath(file_name.val)))
    /\ lastRun' = [lastRun EXCEPT ![OutputTxtPath(file_name.val)] =
                      [status |-> "completed", text |-> Join(transcript_lines),
                       run |-> run]]
    /\ pc' = "SuspendedDone"
    /\ UNCHANGED <<audio_input, chunk_duration, audio_file, file_name,
                   transcript_lines, chunks, i, start_time, elapsed, eta, fs,
                   engineCalls, splitterCalls, fileWrites, fmt, split, run>>

\* the consumer asks for a value after a terminal tuple: the generator returns
ConsumerFinish ==
    /\ pc \in {"SuspendedDone", "SuspendedError"}
    /\ pc' = "Returned"
    /\ UNCHANGED <<audio_input, chunk_duration, audio_file, file_name,
                   transcript_lines, chunks, i, start_time, elapsed, eta, clock,
                   events, fs, engineCalls, splitterCalls, fileWrites, fmt, split, run, lastRun>>

Next ==
    \/ ConsumerStart
    \/ NormalizeFail
    \/ NormalizeOk
    \/ SegmentPassThrough
    \/ SegmentSplit
    \/ SegmentRaise
    \/ EngineReturn
    \/ EngineRaise
    \/ YieldProgress
    \/ ConsumerNext
    \/ PersistOk
    \/ PersistRaise
    \/ YieldDone
    \/ ConsumerFinish

Spec == Init /\ [][Next]_vars

(***************************************************************************)
(* format_time on its own: an input is drawn, the function is applied      *)
(***************************************************************************)
\* the run of transcribe is not started in the specifications of the helpers
RunParked ==
    /\ pc = "Off"
    /\ audio_input = [kind |-> "none"]
    /\ chunk_duration = 0
    /\ audio_file = Absent
    /\ file_name = Absent
    /\ transcript_lines = <<>>
    /\ chunks = <<>>
    /\ i = 0
    /\ start_time = 0
    /\ elapsed = 0
    /\ eta = [num |-> 0, den |-> 1]
    /\ clock = 0
    /\ events = <<>>
    /\ fs = [p \in OutputPaths |-> Absent]
    /\ engineCalls = <<>>
    /\ splitterCalls = <<>>
    /\ fileWrites = 0
    /\ run = 1
    /\ lastRun = NoRuns

\* whole seconds around the places where a field of the result rolls over
FormatSeconds ==
    UNION {(b - 2)..(b + 2) : b \in {2, 60, 3600, 3661, 36000, 86400, 172800, 360000}}

\* inputs of format_time in tenths of a second
FormatInputs == {10 * sec + f : sec \in FormatSeconds, f \in {0, 9}}

InitFormat ==
    /\ RunParked
    /\ split = [pc |-> "off"]
    /\ \E x \in FormatInputs : fmt = [pc |-> "ready", num |-> x, den |-> 10, out |-> <<>>]

\* lines 13-15
ApplyFormatTime ==
    /\ fmt.pc = "ready"
    /\ fmt' = [fmt EXCEPT !.pc = "done", !.out = FormatTime(fmt.num, fmt.den)]
    /\ UNCHANGED <<runVars, split>>

NextFormat == ApplyFormatTime

SpecFormat == InitFormat /\ [][NextFormat]_vars

(***************************************************************************)
(* split_audio on its own: ffmpeg writes the segments of a source one      *)
(* after the other, then the directory is listed and sorted                *)
(***************************************************************************)
\* source durations in seconds; the longest gives more than 999 segments
SplitDurations == {0, 5, 125, 9990, 10010}

\* the smallest positive value of the chunk-duration slider
SliderStep == 10

InitSplit ==
    /\ RunParked
    /\ fmt = [pc |-> "off"]
    /\ \E d \in SplitDurations :
          split = [pc |-> "ffmpeg", duration |-> d, segment_time |-> SliderStep,
                   written |-> 0, result |-> <<>>]

\* lines 28-34: ffmpeg writes its next segment file
FfmpegWriteSegment ==
    /\ split.pc = "ffmpeg"
    /\ split.written < SegmentCount(split.duration, split.segment_time)
    /\ split' = [split EXCEPT !.written = split.written + 1]
    /\ UNCHANGED <<runVars, fmt>>

\* line 34: the source is used up and subprocess.run returns
FfmpegExit ==
    /\ split.pc = "ffmpeg"
    /\ split.written = SegmentCount(split.duration, split.segment_time)
    /\ split' = [split EXCEPT !.pc = "listing"]
    /\ UNCHANGED <<runVars, fmt>>

\* line 35
SplitReturn ==
    /\ split.pc = "listing"
    /\ split' = [split EXCEPT !.pc = "returned", !.result = SplitAudio(split.written)]
    /\ UNCHANGED <<runVars, fmt>>

NextSplit ==
    \/ FfmpegWriteSegment
    \/ FfmpegExit
    \/ SplitReturn

SpecSplit == InitSplit /\ [][NextSplit]_vars

(***************************************************************************)
(* Several calls of transcribe one after the other.  Each call has its own *)
(* frame of locals; the directory transcriptions/ is what they share.  To  *)
(* keep the runs apart at low cost the environment is narrowed here: the   *)
(* clock advances steadily and the engine returns no segment or one fixed  *)
(* segment.                                                                *)
(***************************************************************************)
\* the generator is suspended at a yield, has returned or has raised
RunAtRest ==
    pc \in {"SuspendedProgress", "SuspendedDone", "SuspendedError", "Returned", "Raised"}

\* lines 105-110: the button is clicked again and transcribe is called anew;
\* a generator left suspended is abandoned
NewRun ==
    /\ RunAtRest
    /\ run < MaxRuns
    /\ run' = run + 1
    /\ pc' = "Idle"
    /\ audio_input' \in AudioInputs
    /\ chunk_duration' \in ChunkDurations
    /\ audio_file' = Absent
    /\ file_name' = Absent
    /\ transcript_lines' = <<>>
    /\ chunks' = <<>>
    /\ i' = 0
    /\ start_time' = 0
    /\ elapsed' = 0
    /\ eta' = [num |-> 0, den |-> 1]
    /\ clock' = 0
    /\ events' = <<>>
    /\ engineCalls' = <<>>
    /\ splitterCalls' = <<>>
    /\ fileWrites' = 0
    /\ UNCHANGED <<fs, lastRun, fmt, split>>

\* the one segment the engine returns in the narrowed environment
SteadySegment == CHOOSE seg \in SegmentPool : seg.start = 0

\* the narrowed environment of a step
SteadyEnv ==
    /\ clock' \in {clock, clock + 7}
    /\ \A c \in 1..Len(engineCalls') :
          engineCalls'[c].result.some =>
              engineCalls'[c].result.val \in {<<>>, <<SteadySegment>>}

NextRuns ==
    \/ ConsumerStart /\ SteadyEnv
    \/ NormalizeFail /\ SteadyEnv
    \/ NormalizeOk /\ SteadyEnv
    \/ SegmentPassThrough /\ SteadyEnv
    \/ SegmentSplit /\ SteadyEnv
    \/ SegmentRaise /\ SteadyEnv
    \/ EngineReturn /\ SteadyEnv
    \/ EngineRaise /\ SteadyEnv
    \/ YieldProgress /\ SteadyEnv
    \/ ConsumerNext /\ SteadyEnv
    \/ PersistOk /\ SteadyEnv
    \/ PersistRaise /\ SteadyEnv
    \/ YieldDone /\ SteadyEnv
    \/ ConsumerFinish /\ SteadyEnv
    \/ NewRun

SpecRuns == Init /\ [][NextRuns]_vars

(***************************************************************************)
(* Properties                                                              *)
(***************************************************************************)
LastEvent == events[Len(events)]

DoneEmitted == events # <<>> /\ LastEvent.status.kind = "done"

\* the input was resolved and the Segmenting step is over
Segmented == audio_file.some /\ pc # "Segmenting"

\* C1: a run that reaches its success event has emitted one progress event
\* per chunk, the k-th reporting chunk k of n, and then the success event; a
\* terminal event is always the last event, so no run emits two of them.
ProgressThenOneTerminal ==
    /\ \A k \in 1..Len(events) : IsTerminal(events[k]) => k = Len(events)
    /\ \A k \in 1..Len(events) :
          events[k].status.kind = "progress" =>
              events[k].status.chunk = k /\ events[k].status.total = Len(chunks)
    /\ DoneEmitted =>
          /\ Len(events) = Len(chunks) + 1
          /\ \A k \in 1..Len(chunks) : events[k].status.kind = "progress"

RunOfTwoChunksCompleted ==
    /\ pc = "Returned"
    /\ Len(chunks) = 2
    /\ Len(events) = 3
    /\ events[3].status.kind = "done"

\* the line of a segment built from its own start, end and text alone
OwnLine(seg) ==
    <<"[">> \o TimedeltaStr(IntTrunc(seg.start, 10)) \o <<" ", "-", " ">>
        \o TimedeltaStr(IntTrunc(seg.end, 10)) \o <<"]", ":", " ">> \o Strip(seg.text)

\* the segments the engine can return, each with its line
OwnLineOf ==
    [seg \in SegmentPool \cup {LongResult[k] : k \in DOMAIN LongResult} |-> OwnLine(seg)]

\* the formatted lines of the segments the engine returned, call after call
RECURSIVE ReturnedLines(_)
ReturnedLines(calls) ==
    IF calls = <<>> THEN <<>>
    ELSE LET segs == IF calls[1].result.some THEN calls[1].result.val ELSE <<>>
         IN  [k \in 1..Len(segs) |-> OwnLineOf[segs[k]]] \o ReturnedLines(Tail(calls))

\* C2: the text of the success event is the newline-join of the formatted
\* lines of every segment of every chunk, chunk after chunk and, within a
\* chunk, in the order the engine returned them.
TranscriptIsJoinOfAllLines ==
    DoneEmitted =>
        /\ Len(engineCalls) = Len(chunks)
        /\ \A c \in 1..Len(chunks) : engineCalls[c].chunk = chunks[c]
        /\ LastEvent.preview = Join(ReturnedLines(engineCalls))

DoneAfterEmptyAndFullChunk ==
    /\ pc = "SuspendedDone"
    /\ Len(engineCalls) = 2
    /\ engineCalls[1].result.val = <<>>
    /\ Len(engineCalls[2].result.val) >= 2
    /\ engineCalls[2].result.val[1] # engineCalls[2].result.val[2]

EmptyRecording ==
    /\ audio_input.kind = "recorded"
    /\ (~audio_input.samples.some \/ Len(audio_input.samples.val) = 0)

\* C3: a recording with empty or absent samples yields one error event with
\* an empty preview and no artifact and nothing else: the splitter and the
\* engine are never called and the transcript file is never opened.
EmptyRecordingOnlyErrorEvent ==
    EmptyRecording =>
        /\ pc \in {"Idle", "Normalizing", "SuspendedError", "Returned"}
        /\ splitterCalls = <<>>
        /\ engineCalls = <<>>
        /\ fileWrites = 0
        /\ Len(events) = (IF pc \in {"SuspendedError", "Returned"} THEN 1 ELSE 0)
        /\ \A k \in 1..Len(events) :
              /\ events[k].status.kind = "error"
              /\ events[k].preview = <<>>
              /\ events[k].artifact = Absent

EmptyRecordingRunOver ==
    /\ EmptyRecording
    /\ audio_input.samples.some
    /\ pc = "Returned"
    /\ Len(events) = 1

\* C4: a run that has ended has a terminal event (success with the artifact
\* path, or error without artifact) as its last event.
EndedRunHasTerminalEvent ==
    pc \in {"Returned", "Raised"} =>
        /\ events # <<>>
        /\ \/ LastEvent.status.kind = "done" /\ LastEvent.artifact.some
           \/ LastEvent.status.kind = "error" /\ ~LastEvent.artifact.some

\* C5: when the success event is emitted, the file at its artifact path,
\* transcriptions/<sourceName>.txt, holds exactly the text the event carries.
FileEqualsDoneText ==
    \A k \in 1..Len(events) :
        events[k].status.kind = "done" =>
            /\ events[k].artifact = Some(OutputTxtPath(file_name.val))
            /\ fs[events[k].artifact.val] = Some(events[k].preview)

DoneOverOldFile ==
    /\ pc = "SuspendedDone"
    /\ Len(transcript_lines) >= 2
    /\ fs[OutputTxtPath(file_name.val)] # Some(OldText)

\* C6: the list split_audio returns is in chronological order: position k
\* holds the k-th segment ffmpeg wrote, for every number of segments.
ChunksChronological ==
    split.pc = "returned" =>
        \A k \in 1..Len(split.result) : split.result[k] = ChunkName(k - 1)

\* C7: after the Segmenting step the chunk list is not empty, and no success
\* event is emitted for a run in which no chunk was transcribed.
ChunkListNeverEmpty ==
    /\ (Segmented /\ pc # "Raised") => chunks # <<>>
    /\ DoneEmitted => engineCalls # <<>>

\* C8: with chunk_duration 0 the splitter is not called and the one chunk
\* processed is the resolved input path; with chunk_duration > 0 the splitter
\* is called exactly once and the chunk list is what it returned.
SplitterUsedOnlyForPositiveDuration ==
    /\ ~Segmented => splitterCalls = <<>>
    /\ (Segmented /\ chunk_duration = 0) =>
          /\ splitterCalls = <<>>
          /\ chunks = <<audio_file.val>>
          /\ Len(engineCalls) <= 1
          /\ \A c \in 1..Len(engineCalls) : engineCalls[c].chunk = audio_file.val
          /\ DoneEmitted => Len(engineCalls) = 1
    /\ (Segmented /\ chunk_duration > 0) =>
          /\ Len(splitterCalls) = 1
          /\ splitterCalls[1].path = audio_file.val
          /\ splitterCalls[1].segment_time = chunk_duration
          /\ splitterCalls[1].result.some => chunks = splitterCalls[1].result.val

DoneWithoutSplitting ==
    /\ pc = "SuspendedDone"
    /\ chunk_duration = 0
    /\ Len(engineCalls) = 1

\* C9: in every progress event the ETA is non-negative, and it is 0 in the
\* event of the final chunk.
EtaNonNegativeAndZeroAtEnd ==
    pc = "SuspendedProgress" =>
        /\ eta.num >= 0
        /\ i = Len(chunks) - 1 => eta.num = 0

\* H:MM:SS of a whole number of seconds: unpadded hours, two-digit minutes
\* and seconds
HMMSS(sec) ==
    NatToStr(sec \div 3600) \o <<":">> \o ZeroPad((sec \div 60) % 60, 2)
        \o <<":">> \o ZeroPad(sec % 60, 2)

\* C10: format_time maps every non-negative number of seconds s to H:MM:SS
\* of floor(s), also for 86400 seconds and more.
FormatTimeIsHMMSS ==
    fmt.pc = "done" => fmt.out = HMMSS(fmt.num \div fmt.den)

\* the transcript files as the run found them
FilesUntouched == \E old \in {Absent, Some(OldText)} : fs = [p \in OutputPaths |-> old]

\* C11: the engine is called on the chunks one at a time in list order, each
\* at most once and all of them in a completed run, and the call for the next
\* chunk is made only after the progress event of the previous chunk was
\* emitted and the consumer asked for the next event.
EngineCallsSequentialAndLazy ==
    /\ Len(engineCalls) <= Len(chunks)
    /\ \A c \in 1..Len(engineCalls) : engineCalls[c].chunk = chunks[c]
    /\ DoneEmitted => Len(engineCalls) = Len(chunks)
    /\ Len(engineCalls) <= Len(events) + 1
    /\ pc = "SuspendedProgress" => Len(engineCalls) = Len(events)
    /\ pc = "Processing" => Len(engineCalls) = i /\ Len(events) = i

SecondCallAfterRequest ==
    /\ pc = "Processing"
    /\ i = 1
    /\ Len(events) = 1
    /\ Len(engineCalls) = 1

\* C12: when the engine call for chunk i has failed, the run is aborted with
\* exactly i progress events and no other event, no later chunk was passed to
\* the engine, and the transcript file was neither created nor modified.
EngineFailureAbortsRun ==
    (engineCalls # <<>> /\ ~engineCalls[Len(engineCalls)].result.some) =>
        /\ pc = "Raised"
        /\ Len(engineCalls) = i + 1
        /\ Len(events) = i
        /\ \A k \in 1..Len(events) : events[k].status.kind = "progress"
        /\ fileWrites = 0
        /\ FilesUntouched
        /\ lastRun = NoRuns

SecondChunkFailed ==
    /\ pc = "Raised"
    /\ i = 1
    /\ Len(engineCalls) = 2
    /\ transcript_lines # <<>>

NoErrorEvent == \A k \in 1..Len(events) : events[k].status.kind # "error"

\* C13 as stated: an error event is emitted only from Normalizing and only
\* because the recorded audio is empty or absent.
ErrorOnlyForEmptyRecording ==
    /\ audio_file.some => NoErrorEvent
    /\ ~NoErrorEvent => EmptyRecording

\* C13 as amended: an error event is emitted only from Normalizing, when
\* resolving the input raised (recording empty or absent, the temporary WAV
\* could not be written, or no audio input was given); it is then the only
\* event.  An uploaded file path never produces it, and once Segmenting has
\* been entered no error event is emitted.
ErrorOnlyFromNormalizing ==
    /\ audio_file.some => NoErrorEvent
    /\ audio_input.kind = "file" => NoErrorEvent
    /\ ~NoErrorEvent =>
          /\ Len(events) = 1
          /\ pc \in {"SuspendedError", "Returned"}
          /\ ~audio_file.some
          /\ \/ EmptyRecording
             \/ audio_input.kind = "recorded" /\ events[1].status.text = "wav_write failed"
             \/ audio_input.kind = "none"

ErrorAfterWavWriteFailure ==
    /\ pc = "SuspendedError"
    /\ audio_input.kind = "recorded"
    /\ ~EmptyRecording
    /\ Len(events) = 1

\* the preview is the join of the last min(10, m) of the m lines, empty only
\* when there is none
PreviewShows(preview, lines) ==
    LET m == Len(lines)
        w == IF m < PreviewLines THEN m ELSE PreviewLines
    IN  /\ preview = Join(SubSeq(lines, m - w + 1, m))
        /\ (preview = <<>>) <=> (m = 0)

\* C14: the preview of the progress event after chunk i is the newline-join
\* of the last min(10, m) of the m lines accumulated over chunks 0..i, and it
\* is empty only when m = 0.
PreviewIsLastTenLines ==
    \A k \in 1..Len(events) :
        events[k].status.kind = "progress" =>
            PreviewShows(events[k].preview, ReturnedLines(SubSeq(engineCalls, 1, k)))

PreviewSpansTwoChunks ==
    /\ pc = "SuspendedProgress"
    /\ Len(events) = 2
    /\ Len(engineCalls[1].result.val) = PreviewLines + 1
    /\ Len(engineCalls[2].result.val) = 1

IsPrefix(a, b) == Len(a) <= Len(b) /\ SubSeq(b, 1, Len(a)) = a

\* C15: within one run every step leaves the accumulated lines as they were
\* or extends them, and it extends them only in the step that appends the
\* segments of a chunk; the lines are empty until the first chunk is
\* processed, also in a run that follows another one.
TranscriptAppendOnly ==
    [][/\ run' = run =>
            /\ IsPrefix(transcript_lines, transcript_lines')
            /\ transcript_lines' # transcript_lines =>
                  /\ pc = "Processing" /\ pc' = "Reporting"
                  /\ Len(engineCalls') = Len(engineCalls) + 1
       /\ run' # run => transcript_lines' = <<>>
       /\ (pc' \in {"Idle", "Normalizing", "Segmenting"} \/ pc = "Segmenting") =>
             transcript_lines' = <<>>]_vars

SecondRunAppends ==
    /\ run = 2
    /\ pc = "Reporting"
    /\ i = 1
    /\ Len(transcript_lines) = 2
    /\ \E p \in OutputPaths : lastRun[p].status = "completed" /\ lastRun[p].text # <<>>

\* C16: the transcript file is written once per successful run, after the
\* last progress event and before the success event; no progress event
\* carries an artifact path, and when the success event carries it the file
\* holds the complete transcript.
WriteOnceBeforeTerminal ==
    /\ \A k \in 1..Len(events) :
          events[k].status.kind = "progress" => events[k].artifact = Absent
    /\ fileWrites <= 1
    /\ fileWrites = 1 => Len(events) >= Len(chunks) /\ i = Len(chunks)
    /\ pc = "Persisting" => fileWrites = 0 /\ ~DoneEmitted
    /\ DoneEmitted =>
          /\ fileWrites = 1
          /\ LastEvent.artifact.some
          /\ fs[LastEvent.artifact.val] = Some(Join(ReturnedLines(engineCalls)))

WrittenNotYetAnnounced ==
    /\ pc = "Completing"
    /\ fileWrites = 1
    /\ Len(chunks) = 2
    /\ Len(events) = 2
    /\ Len(transcript_lines) > PreviewLines

\* the segments the engine returned, call after call
RECURSIVE ReturnedSegments(_)
ReturnedSegments(calls) ==
    IF calls = <<>> THEN <<>>
    ELSE (IF calls[1].result.some THEN calls[1].result.val ELSE <<>>)
             \o ReturnedSegments(Tail(calls))

\* C17: every transcript line is built from the start, end and text of its
\* own segment as the engine returned them, whatever the chunk it came from;
\* the timestamps are not offset.
LinesIgnoreChunkPosition ==
    LET segs == ReturnedSegments(engineCalls)
    IN  /\ Len(transcript_lines) = Len(segs)
        /\ \A k \in 1..Len(segs) : transcript_lines[k] = OwnLineOf[segs[k]]

StartTimesGoBackAtChunkBoundary ==
    /\ pc = "Reporting"
    /\ chunk_duration > 0
    /\ Len(engineCalls) = 2
    /\ Len(engineCalls[1].result.val) = 1
    /\ Len(engineCalls[2].result.val) = 1
    /\ engineCalls[2].result.val[1].start < engineCalls[1].result.val[1].start
    /\ Len(transcript_lines) = 2

\* C18: while the generator is suspended after k progress events, exactly
\* the chunks 0..k-1 have been passed to the engine and the transcript file
\* is untouched; the only step out of that state is a request of the
\* consumer, so without one no chunk is processed and no file is written.
AbandonedRunDoesNothing ==
    /\ [](pc = "SuspendedProgress" =>
            /\ Len(events) = i + 1
            /\ Len(engineCalls) = Len(events)
            /\ \A c \in 1..Len(engineCalls) : engineCalls[c].chunk = chunks[c]
            /\ fileWrites = 0
            /\ FilesUntouched)
    /\ [][pc = "SuspendedProgress" =>
            /\ pc' \in {"Processing", "Persisting"}
            /\ UNCHANGED <<engineCalls, events, fs, fileWrites, transcript_lines>>]_vars

SuspendedWithChunkLeft ==
    /\ pc = "SuspendedProgress"
    /\ Len(events) = 1
    /\ Len(chunks) = 2

\* C19: the transcript file of a source name holds exactly the text of the
\* most recently completed run with that name (a run is completed by its
\* success event; until then the file it has just written is ahead), the
\* name is the stem of an uploaded file and "recorded_audio" for every
\* recording.
LatestCompletedRunOwnsFile ==
    /\ \A p \in OutputPaths :
          (/\ lastRun[p].status = "completed"
           /\ ~(pc = "Completing" /\ p = OutputTxtPath(file_name.val))) =>
              fs[p] = Some(lastRun[p].text)
    /\ (file_name.some /\ audio_input.kind = "recorded") => file_name.val = RecordedName
    /\ (file_name.some /\ audio_input.kind = "file") =>
          file_name.val = Stem(audio_input.path)

RecordedRunReplacesEarlierOne ==
    /\ run = 2
    /\ pc = "Completing"
    /\ audio_input.kind = "recorded"
    /\ lastRun[OutputTxtPath(RecordedName)].status = "completed"
    /\ lastRun[OutputTxtPath(RecordedName)].run = 1
    /\ fs[OutputTxtPath(RecordedName)] # Some(lastRun[OutputTxtPath(RecordedName)].text)

====
